---- MODULE Spec2Model ----
(***************************************************************************)
(* A model of the CacheFirst request strategy of workbox-runtime-caching   *)
(* (packages/workbox-runtime-caching/CacheFirst.mjs).                      *)
(*                                                                         *)
(* One CacheFirst instance serves NumCalls calls of handle().  Every await *)
(* of the code is a suspension point: the code between two awaits is one   *)
(* action.  The collaborators the strategy calls (cacheWrapper.match,      *)
(* cacheWrapper.put, fetchWrapper.fetch, Response.clone, event.waitUntil)  *)
(* answer nondeterministically with every outcome their interface allows.  *)
(***************************************************************************)
EXTENDS Integers, Sequences, FiniteSets, TLC

\* Number of handle() calls made on the instance.
NumCalls == 2

Calls == 1..NumCalls

Requests == {"/a", "/b"}

DefaultRuntimeName == "workbox-runtime"

CacheNames == {DefaultRuntimeName, "my-cache"}

(***************************************************************************)
(* JavaScript values.  Every value is a record of the same shape: a kind,  *)
(* an object identity and (for a Response) the payload of its body.        *)
(***************************************************************************)
NoBody == <<"none", "none">>

Undefined == [kind |-> "undefined", oid |-> <<0, "undefined">>, body |-> NoBody]

Err(name) == [kind |-> "error", oid |-> <<0, name>>, body |-> NoBody]

Resp(c, role, body) == [kind |-> "response", oid |-> <<c, role>>, body |-> body]

\* JavaScript truthiness: undefined is falsy, every object is truthy.
Truthy(v) == v.kind # "undefined"

\* Promises.
Pending == [state |-> "pending", value |-> Undefined]

Fulfilled(v) == [state |-> "fulfilled", value |-> v]

Rejected(v) == [state |-> "rejected", value |-> v]

NoPromise == [state |-> "none", value |-> Undefined]

\* Payloads: what the store holds before any call, and what the network serves.
CachedBody(r) == <<"cached", r>>

NetBody(r) == <<"net", r>>

\* Values a failing store lookup rejects with.
LookupErrors == {Err("LookupError"), Undefined}

\* Values a failing fetch rejects with: a network error, or a rejection
\* that carries no reason (Promise.reject()).
FetchErrors == {Err("NetworkError"), Undefined}

\* new CacheFirst(options): the options the constructor may be given.
ConstructorOptions ==
  { [hasCacheName |-> FALSE, cacheName |-> "", hasPlugins |-> FALSE, plugins |-> <<>>],
    [hasCacheName |-> TRUE, cacheName |-> "my-cache", hasPlugins |-> TRUE,
     plugins |-> <<"P1", "P2">>] }

\* The events handle() may be called with: a FetchEvent for any request, or
\* an object that only looks like one (it has a request and a waitUntil).
Events ==
  { [isFetchEvent |-> TRUE, request |-> r] : r \in Requests }
  \cup { [isFetchEvent |-> FALSE, request |-> "/a"] }

VARIABLES
  options,       \* the options the constructor was given
  production,    \* process.env.NODE_ENV === 'production'
  _cacheName,    \* this._cacheName
  _plugins,      \* this._plugins
  store,         \* the caches: cache name -> request -> stored payload
  alive,         \* the service worker has not been terminated
  pc,            \* where each handle() call stands
  event,         \* the event each call was given
  response,      \* handle's local `response`
  error,         \* handle's local `error`
  matchPromise,  \* the promise cacheWrapper.match returned to the call
  fetchPromise,  \* the promise fetchWrapper.fetch returned to the call
  netPromise,    \* the promise _getFromNetwork returned to the call
  putPromise,    \* the promise cacheWrapper.put returned to the call
  extended,      \* the call's put promise was accepted by event.waitUntil
  result,        \* the promise handle() returned to its caller
  bodyUsed,      \* the Response objects whose body has been read
  trace,         \* the calls each handle() made on its collaborators, in order
  hookAt,        \* the plugin pipeline: the hook a facade call has reached
  hookLog,       \* the plugin pipeline: the hooks invoked so far, in order
  wizardPc,      \* the glob-pattern wizard: where it stands
  allFiles,      \* the wizard: the files nodeDir.promiseFiles listed
  fileExtensions, \* the wizard: what getAllFileExtensions returned
  answers,       \* the wizard: the extensions the user ticked in the prompt
  wizardResult   \* the wizard: the promise module.exports returned

\* The state of one CacheFirst instance and of the handle() calls made on it.
strategyVars == <<options, production, _cacheName, _plugins, store, alive, pc, event,
                  response, error, matchPromise, fetchPromise, netPromise,
                  putPromise, extended, result, bodyUsed, trace>>

\* The state of the plugin pipeline the facades run.
pipelineVars == <<hookAt, hookLog>>

\* The state of the glob-pattern wizard.
wizardVars == <<wizardPc, allFiles, fileExtensions, answers, wizardResult>>

vars == <<strategyVars, pipelineVars, wizardVars>>

\* cacheNames.getRuntimeName(name): the given name, or the default one.
GetRuntimeName(opts) ==
  IF opts.hasCacheName THEN opts.cacheName ELSE DefaultRuntimeName

\* Mutant of PluginsOrEmpty: the plugins are kept in the reverse order.
PluginsReversed(opts) ==
  IF opts.hasPlugins
  THEN [i \in 1..Len(opts.plugins) |-> opts.plugins[Len(opts.plugins) + 1 - i]]
  ELSE <<>>

\* options.plugins || []
PluginsOrEmpty(opts) ==
  IF opts.hasPlugins THEN opts.plugins ELSE <<>>

\* The store before any call: the instance's cache holds "/a" and not "/b"
\* (so "/a" hits at once and "/b" hits only after a put); other caches are empty.
InitialStore(name) ==
  [n \in CacheNames |->
     [r \in Requests |-> IF n = name /\ r = "/a" THEN CachedBody(r) ELSE NoBody]]

\* No facade call is running hooks.
PipelineIdle ==
  /\ hookAt = [point |-> 0, plugin |-> 0, running |-> FALSE, impl |-> {}]
  /\ hookLog = <<>>

\* The wizard has not been started.
WizardIdle ==
  /\ wizardPc = "idle"
  /\ allFiles = <<>>
  /\ fileExtensions = <<>>
  /\ answers = <<>>
  /\ wizardResult = [state |-> "none", error |-> "", value |-> <<>>]

\* new CacheFirst(options), and no handle() call made yet.
Constructed ==
  /\ production \in BOOLEAN
  /\ options \in ConstructorOptions
  /\ _cacheName = GetRuntimeName(options)
  /\ _plugins = PluginsOrEmpty(options)
  /\ store = InitialStore(_cacheName)
  /\ alive = TRUE
  /\ pc = [c \in Calls |-> "idle"]
  /\ event = [c \in Calls |-> [isFetchEvent |-> TRUE, request |-> "/a"]]
  /\ response = [c \in Calls |-> Undefined]
  /\ error = [c \in Calls |-> Undefined]
  /\ matchPromise = [c \in Calls |-> NoPromise]
  /\ fetchPromise = [c \in Calls |-> NoPromise]
  /\ netPromise = [c \in Calls |-> NoPromise]
  /\ putPromise = [c \in Calls |-> NoPromise]
  /\ extended = [c \in Calls |-> FALSE]
  /\ result = [c \in Calls |-> NoPromise]
  /\ bodyUsed = {}
  /\ trace = [c \in Calls |-> <<>>]

Init == Constructed /\ PipelineIdle /\ WizardIdle

(***************************************************************************)
(* The calls a handle() makes on its collaborators, as recorded in trace,  *)
(* each with its arguments and with whether it threw synchronously.        *)
(***************************************************************************)
NoArg == "-"

\* Mutant of MatchCall: the lookup goes to the default cache.
MatchCallDefaultCache(name, request, matchOptions, plugins) ==
  [op |-> "match", threw |-> FALSE, cacheName |-> DefaultRuntimeName,
   request |-> request, options |-> matchOptions, response |-> Undefined,
   plugins |-> plugins]

MatchCall(name, request, matchOptions, plugins) ==
  [op |-> "match", threw |-> FALSE, cacheName |-> name, request |-> request, options |-> matchOptions,
   response |-> Undefined, plugins |-> plugins]

\* Mutant of FetchCall: the plugins are not passed to fetch.
FetchCallNoPlugins(request, fetchOptions, plugins) ==
  [op |-> "fetch", threw |-> FALSE, cacheName |-> NoArg, request |-> request,
   options |-> fetchOptions, response |-> Undefined, plugins |-> <<>>]

FetchCall(request, fetchOptions, plugins) ==
  [op |-> "fetch", threw |-> FALSE, cacheName |-> NoArg, request |-> request, options |-> fetchOptions,
   response |-> Undefined, plugins |-> plugins]

CloneCall(resp, threw) ==
  [op |-> "clone", threw |-> threw, cacheName |-> NoArg, request |-> NoArg, options |-> NoArg,
   response |-> resp, plugins |-> <<>>]

PutCall(name, request, resp, plugins) ==
  [op |-> "put", threw |-> FALSE, cacheName |-> name, request |-> request, options |-> NoArg,
   response |-> resp, plugins |-> plugins]

WaitUntilCall(resp, threw) ==
  [op |-> "waitUntil", threw |-> threw, cacheName |-> NoArg, request |-> NoArg, options |-> NoArg,
   response |-> resp, plugins |-> <<>>]

\* The calls of one kind a handle() has made.
Made(c, op) == SelectSeq(trace[c], LAMBDA e : e.op = op)

(***************************************************************************)
(* The collaborators' answers.                                             *)
(***************************************************************************)
\* cacheWrapper.match(cacheName, request, ...): the stored response (a fresh
\* Response object over the stored payload), nothing, or a failed lookup.
MatchOutcomes(c, name, request) ==
  { Fulfilled(IF store[name][request] # NoBody
              THEN Resp(c, "cached", store[name][request])
              ELSE Undefined) }
  \cup { Rejected(e) : e \in LookupErrors }

\* fetchWrapper.fetch(request, ...): a response over the network's payload,
\* whose body may already have been read on the way, or a failure.
FetchOutcomes(c, request) ==
  { [promise |-> Fulfilled(Resp(c, "net", NetBody(request))), used |-> u] :
      u \in BOOLEAN }
  \cup { [promise |-> Rejected(e), used |-> FALSE] : e \in FetchErrors }

\* Response.clone() throws a TypeError when the body has already been read.
CloneThrows(resp, used) == resp.oid \in used

\* Mutant of Clone: the copy is made without the payload.
CloneWithoutBody(c, resp) == Resp(c, "clone", NoBody)

\* Mutant of Clone: no copy is made, the put is handed the response itself.
CloneSameObject(c, resp) == resp

\* Response.clone(): a new Response object over the same payload.
Clone(c, resp) == Resp(c, "clone", resp.body)

(***************************************************************************)
(* handle({event}), lines 62-80: the assertion, then the store lookup.     *)
(***************************************************************************)
\* Mutant of AssertionFails: the assertion is made in production too.
AssertionAlways(ev) == ~ev.isFetchEvent

\* Mutant of AssertionFails: the assertion is never made.
AssertionSkipped(ev) == FALSE

\* assert.isInstance(event, FetchEvent, ...) runs outside production only.
AssertionFails(ev) == ~production /\ ~ev.isFetchEvent

Handle(c, ev) ==
  /\ alive
  /\ pc[c] = "idle"
  /\ \A d \in Calls : d < c => pc[d] # "idle"
  /\ event' = [event EXCEPT ![c] = ev]
  /\ IF AssertionFails(ev)
     THEN /\ result' = [result EXCEPT ![c] = Rejected(Err("AssertionError"))]
          /\ pc' = [pc EXCEPT ![c] = "done"]
          /\ UNCHANGED <<trace, matchPromise>>
     ELSE /\ trace' = [trace EXCEPT ![c] =
                         Append(@, MatchCall(_cacheName, ev.request, "null", _plugins))]
          /\ matchPromise' = [matchPromise EXCEPT ![c] = Pending]
          /\ result' = [result EXCEPT ![c] = Pending]
          /\ pc' = [pc EXCEPT ![c] = "await_match"]
  /\ UNCHANGED <<options, pipelineVars, wizardVars, production, _cacheName, _plugins, store, alive, response, error,
                 fetchPromise, netPromise, putPromise, extended, bodyUsed>>

(***************************************************************************)
(* handle, lines 75-120, from the settling of match: a failed lookup       *)
(* rejects handle, a found response is returned, and on a miss             *)
(* _getFromNetwork is called, which calls fetch (lines 130-135).           *)
(***************************************************************************)
\* Mutant of LookupFailed: a failed lookup is caught and handled as an answer.
LookupFailureIgnored(m) == FALSE

\* The await of line 75 throws when match's promise is rejected.
LookupFailed(m) == m.state = "rejected"

\* Mutant of IsMiss: the network is used whatever the store answered.
AlwaysMiss(resp) == TRUE

\* if (!response)
IsMiss(resp) == ~Truthy(resp)

MatchSettle(c) ==
  /\ alive
  /\ pc[c] = "await_match"
  /\ \E m \in MatchOutcomes(c, _cacheName, event[c].request) :
       /\ matchPromise' = [matchPromise EXCEPT ![c] = m]
       /\ IF LookupFailed(m)
          THEN /\ result' = [result EXCEPT ![c] = Rejected(m.value)]
               /\ pc' = [pc EXCEPT ![c] = "done"]
               /\ UNCHANGED <<response, trace, fetchPromise, netPromise>>
          ELSE /\ response' = [response EXCEPT ![c] = m.value]
               /\ IF IsMiss(m.value)
                  THEN /\ trace' = [trace EXCEPT ![c] =
                              Append(@, FetchCall(event[c].request, "null", _plugins))]
                       /\ fetchPromise' = [fetchPromise EXCEPT ![c] = Pending]
                       /\ netPromise' = [netPromise EXCEPT ![c] = Pending]
                       /\ pc' = [pc EXCEPT ![c] = "await_fetch"]
                       /\ UNCHANGED result
                  ELSE /\ result' = [result EXCEPT ![c] = Fulfilled(m.value)]
                       /\ pc' = [pc EXCEPT ![c] = "done"]
                       /\ UNCHANGED <<trace, fetchPromise, netPromise>>
  /\ UNCHANGED <<options, pipelineVars, wizardVars, production, _cacheName, _plugins, store, alive, event, error,
                 putPromise, extended, bodyUsed>>

(***************************************************************************)
(* _getFromNetwork, lines 131-148, from the settling of fetch: a failed    *)
(* fetch rejects it; otherwise the response is cloned, put is called with  *)
(* the clone, the put's promise is handed to event.waitUntil, and the      *)
(* response is returned.  clone and waitUntil may throw.                   *)
(***************************************************************************)
\* Mutant of FetchFailed: a failed fetch is caught and the code goes on.
FetchFailureIgnored(f) == FALSE

\* The await of line 131 throws when fetch's promise is rejected.
FetchFailed(f) == f.promise.state = "rejected"

\* Mutant of PutArgs: the event is kept on the instance (this._event = event),
\* so the put uses the request of the call that started last.
PutArgsSharedEvent(c, responseClone) ==
  LET last == CHOOSE d \in Calls :
                pc[d] # "idle" /\ \A e \in Calls : e > d => pc[e] = "idle"
  IN  PutCall(_cacheName, event[last].request, responseClone, _plugins)

\* Mutant of PutArgs: the put goes to the default cache, not to this._cacheName.
PutArgsDefaultCache(c, responseClone) ==
  PutCall(DefaultRuntimeName, event[c].request, responseClone, _plugins)

\* cacheWrapper.put(this._cacheName, event.request, responseClone, this._plugins)
PutArgs(c, responseClone) ==
  PutCall(_cacheName, event[c].request, responseClone, _plugins)

\* Mutant of WaitUntil: the put's promise is not handed to the event.
WaitUntilSkipped(c, active) == UNCHANGED extended

\* event.waitUntil(promise): an active event takes the promise among those
\* that keep the service worker alive; an inactive one throws.
WaitUntil(c, active) == extended' = [extended EXCEPT ![c] = active]

GetFromNetwork(c, f, active) ==
  LET resp == f.promise.value
      used == IF f.used THEN bodyUsed \cup {resp.oid} ELSE bodyUsed
      responseClone == Clone(c, resp)
  IN  /\ fetchPromise' = [fetchPromise EXCEPT ![c] = f.promise]
      /\ IF FetchFailed(f)
         THEN /\ netPromise' = [netPromise EXCEPT ![c] = Rejected(f.promise.value)]
              /\ UNCHANGED <<trace, putPromise, extended, bodyUsed>>
         ELSE /\ bodyUsed' = used
              /\ IF CloneThrows(resp, used)
                 THEN /\ trace' = [trace EXCEPT ![c] = Append(@, CloneCall(resp, TRUE))]
                      /\ netPromise' = [netPromise EXCEPT ![c] = Rejected(Err("TypeError"))]
                      /\ UNCHANGED <<putPromise, extended>>
                 ELSE /\ trace' = [trace EXCEPT ![c] =
                             @ \o << CloneCall(resp, FALSE),
                                     PutArgs(c, responseClone),
                                     WaitUntilCall(responseClone, ~active) >>]
                      /\ putPromise' = [putPromise EXCEPT ![c] = Pending]
                      /\ WaitUntil(c, active)
                      /\ netPromise' = [netPromise EXCEPT ![c] =
                            IF active THEN Fulfilled(resp)
                            ELSE Rejected(Err("InvalidStateError"))]

FetchSettle(c) ==
  /\ alive
  /\ pc[c] = "await_fetch"
  /\ \E f \in FetchOutcomes(c, event[c].request), active \in BOOLEAN :
       GetFromNetwork(c, f, active)
  /\ pc' = [pc EXCEPT ![c] = "await_network"]
  /\ UNCHANGED <<options, pipelineVars, wizardVars, production, _cacheName, _plugins, store, alive, event, response,
                 error, matchPromise, result>>

(***************************************************************************)
(* handle, lines 88-120, from the settling of _getFromNetwork: the         *)
(* try/catch keeps the response or the error, and handle throws the error  *)
(* or returns the response.                                                *)
(***************************************************************************)
\* Mutant of NetworkSettled: a call waits for the fetches other calls have in
\* flight for the same request.
NetworkSettledAfterPeers(c) ==
  /\ netPromise[c].state \in {"fulfilled", "rejected"}
  /\ ~\E d \in Calls \ {c} :
        pc[d] = "await_fetch" /\ event[d].request = event[c].request

\* Mutant of NetworkSettled: _getFromNetwork awaits the put before it returns.
NetworkSettledAfterPut(c) ==
  /\ netPromise[c].state \in {"fulfilled", "rejected"}
  /\ putPromise[c].state # "pending"

\* The await of line 89 resumes once _getFromNetwork's promise has settled.
NetworkSettled(c) == netPromise[c].state \in {"fulfilled", "rejected"}

\* Mutant of NetworkOutcome: a failed put fails _getFromNetwork.
NetworkOutcomeAfterPut(c) ==
  IF putPromise[c].state = "rejected" THEN putPromise[c] ELSE netPromise[c]

\* What the await of line 89 yields: the settled promise of _getFromNetwork.
NetworkOutcome(c) == netPromise[c]

\* Mutant of MustThrow: the caught error is dropped.
MustThrowNever(err) == FALSE

\* if (error)
MustThrow(err) == Truthy(err)

HandleResume(c) ==
  /\ alive
  /\ pc[c] = "await_network"
  /\ NetworkSettled(c)
  /\ LET np == NetworkOutcome(c)
         resp == IF np.state = "fulfilled" THEN np.value ELSE response[c]
         err == IF np.state = "rejected" THEN np.value ELSE error[c]
     IN  /\ response' = [response EXCEPT ![c] = resp]
         /\ error' = [error EXCEPT ![c] = err]
         /\ result' = [result EXCEPT ![c] =
                         IF MustThrow(err) THEN Rejected(err) ELSE Fulfilled(resp)]
  /\ pc' = [pc EXCEPT ![c] = "done"]
  /\ UNCHANGED <<options, pipelineVars, wizardVars, production, _cacheName, _plugins, store, alive, event,
                 matchPromise, fetchPromise, netPromise, putPromise, extended,
                 bodyUsed, trace>>

(***************************************************************************)
(* The environment: the pending put finishes, the caller reads the body of *)
(* the response it was given, the service worker is terminated.            *)
(***************************************************************************)
\* The put call a handle() made (there is one when putPromise is not "none").
ThePut(c) == Made(c, "put")[1]

\* cacheWrapper.put finishes: it reads the body it was given and stores it,
\* or it fails (always so when that body has already been read).
PutSettle(c) ==
  /\ alive
  /\ putPromise[c].state = "pending"
  /\ LET put == ThePut(c)
     IN  \/ /\ put.response.oid \notin bodyUsed
            /\ bodyUsed' = bodyUsed \cup {put.response.oid}
            /\ store' = [store EXCEPT ![put.cacheName][put.request] = put.response.body]
            /\ putPromise' = [putPromise EXCEPT ![c] = Fulfilled(Undefined)]
         \/ /\ putPromise' = [putPromise EXCEPT ![c] = Rejected(Err("PutError"))]
            /\ UNCHANGED <<store, bodyUsed>>
  /\ UNCHANGED <<options, pipelineVars, wizardVars, production, _cacheName, _plugins, alive, pc, event, response,
                 error, matchPromise, fetchPromise, netPromise, extended, result,
                 trace>>

\* The caller of handle reads the body of the response handle resolved with.
ReadBody(c) ==
  /\ alive
  /\ result[c].state = "fulfilled"
  /\ result[c].value.kind = "response"
  /\ result[c].value.oid \notin bodyUsed
  /\ bodyUsed' = bodyUsed \cup {result[c].value.oid}
  /\ UNCHANGED <<options, pipelineVars, wizardVars, production, _cacheName, _plugins, store, alive, pc, event,
                 response, error, matchPromise, fetchPromise, netPromise,
                 putPromise, extended, result, trace>>

\* The service worker may be terminated once no event is being handled and
\* every promise handed to waitUntil has settled.
Terminate ==
  /\ alive
  /\ \A c \in Calls :
       /\ pc[c] \in {"idle", "done"}
       /\ ~(extended[c] /\ putPromise[c].state = "pending")
  /\ alive' = FALSE
  /\ UNCHANGED <<options, pipelineVars, wizardVars, production, _cacheName, _plugins, store, pc, event, response,
                 error, matchPromise, fetchPromise, netPromise, putPromise,
                 extended, result, bodyUsed, trace>>

Next ==
  \/ \E c \in Calls, ev \in Events : Handle(c, ev)
  \/ \E c \in Calls : MatchSettle(c)
  \/ \E c \in Calls : FetchSettle(c)
  \/ \E c \in Calls : HandleResume(c)
  \/ \E c \in Calls : PutSettle(c)
  \/ \E c \in Calls : ReadBody(c)
  \/ Terminate

Spec == Init /\ [][Next]_vars

(***************************************************************************)
(* The plugin pipeline the facades run on the plugins handle passes them   *)
(* (lines 79, 134, 144), for the calls of one handle() that misses:        *)
(* match, fetch, put.  At each lifecycle point the facade goes through     *)
(* the plugins in the order of the sequence it was given; a plugin without *)
(* the point's hook is skipped; a hook is awaited before the next one is   *)
(* looked at; a hook may short-circuit the point, after which the facade   *)
(* either leaves the rest of the chain out or still runs it.               *)
(***************************************************************************)
Points == << "beforeMatch", "afterMatch", "beforeFetch", "afterFetch",
             "beforeWrite", "afterWrite" >>

\* The sequence of plugins the facade was passed for the call of a point.
FacadePlugins(point) ==
  IF point \in {1, 2}
  THEN MatchCall(_cacheName, event[1].request, "null", _plugins).plugins
  ELSE IF point \in {3, 4}
  THEN FetchCall(event[1].request, "null", _plugins).plugins
  ELSE PutArgs(1, Undefined).plugins

PluginNames == {"P1", "P2"}

LogEntry(plugin, ev, cut) == [plugin |-> plugin, ev |-> ev, cut |-> cut]

\* A lifecycle point is entered: which plugins have its hook is a fact of the
\* plugin objects.
EnterPoint(point) ==
  /\ \E impl \in SUBSET PluginNames :
       hookAt' = [point |-> point, plugin |-> 1, running |-> FALSE, impl |-> impl]
  /\ hookLog' = <<>>

PipelineStart == \E impl \in SUBSET PluginNames :
  /\ hookAt = [point |-> 1, plugin |-> 1, running |-> FALSE, impl |-> impl]
  /\ hookLog = <<>>

AtPlugin ==
  /\ hookAt.point \in 1..Len(Points)
  /\ ~hookAt.running
  /\ hookAt.plugin <= Len(FacadePlugins(hookAt.point))

\* The plugin has no hook for this point: it is skipped.
HookSkip ==
  /\ AtPlugin
  /\ FacadePlugins(hookAt.point)[hookAt.plugin] \notin hookAt.impl
  /\ hookLog' = Append(hookLog,
        LogEntry(FacadePlugins(hookAt.point)[hookAt.plugin], "absent", FALSE))
  /\ hookAt' = [hookAt EXCEPT !.plugin = @ + 1]
  /\ UNCHANGED <<strategyVars, wizardVars>>

\* The plugin's hook is called.
HookBegin ==
  /\ AtPlugin
  /\ FacadePlugins(hookAt.point)[hookAt.plugin] \in hookAt.impl
  /\ hookLog' = Append(hookLog,
        LogEntry(FacadePlugins(hookAt.point)[hookAt.plugin], "begin", FALSE))
  /\ hookAt' = [hookAt EXCEPT !.running = TRUE]
  /\ UNCHANGED <<strategyVars, wizardVars>>

\* The awaited hook completes, asking or not to short-circuit the point.
HookEnd ==
  /\ hookAt.point \in 1..Len(Points)
  /\ hookAt.running
  /\ LET plugins == FacadePlugins(hookAt.point)
     IN  \E cut \in BOOLEAN :
           /\ hookLog' = Append(hookLog, LogEntry(plugins[hookAt.plugin], "end", cut))
           /\ \/ hookAt' = [hookAt EXCEPT !.running = FALSE, !.plugin = @ + 1]
              \/ /\ cut
                 /\ hookAt' = [hookAt EXCEPT !.running = FALSE,
                                             !.plugin = Len(plugins) + 1]
  /\ UNCHANGED <<strategyVars, wizardVars>>

\* The chain of the point is over.
PointComplete ==
  /\ hookAt.point \in 1..Len(Points)
  /\ ~hookAt.running
  /\ hookAt.plugin > Len(FacadePlugins(hookAt.point))

\* The facade goes on to its next lifecycle point.
PointDone ==
  /\ PointComplete
  /\ hookAt.point < Len(Points)
  /\ EnterPoint(hookAt.point + 1)
  /\ UNCHANGED <<strategyVars, wizardVars>>

PluginNext == HookSkip \/ HookBegin \/ HookEnd \/ PointDone

PluginInit == Constructed /\ PipelineStart /\ WizardIdle

PluginSpec == PluginInit /\ [][PluginNext]_vars

(***************************************************************************)
(* The glob-pattern wizard, lines 170-237.  File names and extensions are  *)
(* sequences of characters; a file is the directories below globDirectory  *)
(* it lies in and its base name.                                           *)
(***************************************************************************)
MaxFiles == 2

IgnoredDirectories == {"node_modules"}

BaseNames == { <<"m">>, <<".", "m">>, <<"m", ".">>, <<"m", ".", "j">>,
               <<"m", ".", "c">>, <<"m", ".", "j", ".", "c">> }

Directories == { <<>>, <<"node_modules">>, <<"lib">> }

Files == [dirs : Directories, base : BaseNames]

\* What nodeDir.promiseFiles may list: up to MaxFiles files.
Listings == UNION { [1..k -> Files] : k \in 0..MaxFiles }

\* path.extname: from the last "." of the base name to its end; empty when
\* there is no ".", when the only "." is the first character, and for "..".
ExtName(base) ==
  LET n == Len(base)
      dots == {i \in 1..n : base[i] = "."}
      startDot == IF dots = {} THEN 0
                  ELSE CHOOSE i \in dots : \A j \in dots : j <= i
      preDotState == IF startDot <= 1 THEN 0
                     ELSE IF base[1] = "." THEN 1 ELSE -1
  IN  IF \/ startDot = 0
         \/ preDotState = 0
         \/ (preDotState = 1 /\ startDot = n /\ startDot = 2)
      THEN <<>>
      ELSE SubSeq(base, startDot, n)

\* extension.replace(/^\./, '')
StripDot(extension) ==
  IF extension # <<>> /\ Head(extension) = "." THEN Tail(extension) ELSE extension

\* substringsToIgnore.every((substring) => !filePath.includes(substring)):
\* the path holds /directory/ when one of the file's directories is ignored.
NotIgnored(file) ==
  \A i \in 1..Len(file.dirs) : file.dirs[i] \notin IgnoredDirectories

FilteredFiles(files) == SelectSeq(files, NotIgnored)

\* getAllFileExtensions: the Set of the stripped non-empty extensions, in
\* insertion order.
GetAllFileExtensions(files) ==
  LET filtered == FilteredFiles(files)
      ext[k \in 0..Len(filtered)] ==
        IF k = 0 THEN <<>>
        ELSE LET extension == ExtName(filtered[k].base)
             IN  IF extension # <<>>
                    /\ \A i \in 1..Len(ext[k - 1]) : ext[k - 1][i] # StripDot(extension)
                 THEN Append(ext[k - 1], StripDot(extension))
                 ELSE ext[k - 1]
  IN  ext[Len(filtered)]

\* What the checkbox prompt may answer: the choices ticked, in their order.
Ticked(choices, ticks) ==
  LET sel[k \in 0..Len(choices)] ==
        IF k = 0 THEN <<>>
        ELSE IF k \in ticks THEN Append(sel[k - 1], choices[k]) ELSE sel[k - 1]
  IN  sel[Len(choices)]

\* extensions.join(',')
Join(extensions, separator) ==
  LET joined[k \in 0..Len(extensions)] ==
        IF k = 0 THEN <<>>
        ELSE IF k = 1 THEN extensions[1]
        ELSE joined[k - 1] \o <<separator>> \o extensions[k]
  IN  joined[Len(extensions)]

\* `**/*.{${extensions.join(',')}}`
GlobPattern(extensions) ==
  <<"*", "*", "/", "*", ".", "{">> \o Join(extensions, ",") \o <<"}">>

WizardThrows(name) == [state |-> "rejected", error |-> name, value |-> <<>>]

WizardReturns(patterns) == [state |-> "fulfilled", error |-> "", value |-> patterns]

\* The wizard is called: askQuestion calls getAllFileExtensions, which calls
\* nodeDir.promiseFiles and awaits it (lines 230, 214, 189).
RunWizard ==
  /\ wizardPc = "idle"
  /\ wizardPc' = "await_files"
  /\ UNCHANGED <<allFiles, fileExtensions, answers, wizardResult>>
  /\ UNCHANGED <<strategyVars, pipelineVars>>

\* The files are listed (lines 189-226): the extensions are collected, and
\* either there is none and askQuestion throws, or the prompt is shown.
FilesListed ==
  /\ wizardPc = "await_files"
  /\ \E files \in Listings :
       /\ allFiles' = files
       /\ fileExtensions' = GetAllFileExtensions(files)
       /\ IF Len(GetAllFileExtensions(files)) = 0
          THEN /\ wizardResult' = WizardThrows("no-file-extensions-found")
               /\ wizardPc' = "done"
          ELSE /\ wizardPc' = "await_prompt"
               /\ UNCHANGED wizardResult
  /\ UNCHANGED answers
  /\ UNCHANGED <<strategyVars, pipelineVars>>

\* The prompt is answered (lines 231-236).
Answered ==
  /\ wizardPc = "await_prompt"
  /\ \E ticks \in SUBSET (1..Len(fileExtensions)) :
       LET extensions == Ticked(fileExtensions, ticks)
       IN  /\ answers' = extensions
           /\ wizardResult' = IF Len(extensions) = 0
                              THEN WizardThrows("no-file-extensions-selected")
                              ELSE WizardReturns(<<GlobPattern(extensions)>>)
  /\ wizardPc' = "done"
  /\ UNCHANGED <<allFiles, fileExtensions>>
  /\ UNCHANGED <<strategyVars, pipelineVars>>

WizardNext == RunWizard \/ FilesListed \/ Answered

WizardInit == Constructed /\ PipelineIdle /\ WizardIdle

WizardSpec == WizardInit /\ [][WizardNext]_vars

(***************************************************************************)
(* Vocabulary of the properties.                                           *)
(***************************************************************************)
Settled(p) == p.state \in {"fulfilled", "rejected"}

\* match answered the call with a stored response / with nothing.
Hit(c) == matchPromise[c].state = "fulfilled" /\ matchPromise[c].value.kind = "response"

Missed(c) == matchPromise[c].state = "fulfilled" /\ matchPromise[c].value.kind = "undefined"

FetchSucceeded(c) == fetchPromise[c].state = "fulfilled"

FetchRejected(c) == fetchPromise[c].state = "rejected"

\* Some call the handle() made on a collaborator threw synchronously.
Threw(c) == \E i \in 1..Len(trace[c]) : trace[c][i].threw

\* The kinds of the calls a handle() made, in order.
Ops(c) == [i \in 1..Len(trace[c]) |-> trace[c][i].op]

\* handle() was rejected by the non-production assertion on its event.
FailsAssertion(c) == pc[c] # "idle" /\ ~production /\ ~event[c].isFetchEvent

(***************************************************************************)
(* C1. Cache hit: when match answers with a stored response, handle        *)
(* resolves with exactly that response, and the call invokes neither fetch *)
(* nor clone nor put nor waitUntil; the step that handles the hit leaves   *)
(* the store as it was, and the call has no put that could write later.    *)
(***************************************************************************)
C1_HitState ==
  \A c \in Calls :
    Hit(c) => /\ pc[c] = "done"
              /\ result[c] = Fulfilled(matchPromise[c].value)
              /\ Ops(c) = <<"match">>
              /\ fetchPromise[c] = NoPromise
              /\ putPromise[c] = NoPromise
              /\ ~extended[c]

C1_HitStep ==
  \A c \in Calls : (Hit(c)' /\ pc'[c] # pc[c]) => store' = store

C1_CacheHit == [](C1_HitState) /\ [][C1_HitStep]_vars

C1_Witness ==
  \E c \in Calls : Hit(c) /\ result[c].state = "fulfilled"
                          /\ result[c].value.body = CachedBody(event[c].request)

(***************************************************************************)
(* C2 as stated: on a miss with a successful fetch, handle resolves with a *)
(* response equivalent to the fetched one and exactly one put is invoked,  *)
(* with this instance's cache name, the same request and an equivalent     *)
(* response.                                                               *)
(***************************************************************************)
C2_Delivered(c) ==
  /\ result[c].state = "fulfilled"
  /\ result[c].value.kind = "response"
  /\ result[c].value.body = fetchPromise[c].value.body
  /\ Len(Made(c, "put")) = 1
  /\ ThePut(c).cacheName = _cacheName
  /\ ThePut(c).request = event[c].request
  /\ ThePut(c).response.kind = "response"
  /\ ThePut(c).response.body = fetchPromise[c].value.body

C3_FetchFails ==
  \A c \in Calls :
    (Missed(c) /\ FetchRejected(c) /\ pc[c] = "done") =>
       /\ result[c] = Rejected(fetchPromise[c].value)
       /\ Ops(c) = <<"match", "fetch">>
       /\ putPromise[c] = NoPromise

(***************************************************************************)
(* C4 as stated: every finished handle call ended in exactly one of three  *)
(* ways: resolved with the stored response, resolved with the fresh        *)
(* network response, or rejected with an error; it never resolves with an  *)
(* absent response and never discards the error that aborted retrieval.    *)
(***************************************************************************)
C4_StoredResponse(c) == Hit(c) /\ result[c] = Fulfilled(matchPromise[c].value)

C4_FreshResponse(c) ==
  Missed(c) /\ FetchSucceeded(c) /\ result[c] = Fulfilled(fetchPromise[c].value)

C4_Failure(c) == result[c].state = "rejected"

C4_ThreeOutcomes ==
  \A c \in Calls :
    pc[c] = "done" =>
      /\ C4_StoredResponse(c) \/ C4_FreshResponse(c) \/ C4_Failure(c)
      /\ result[c].state = "fulfilled" => result[c].value.kind = "response"
      /\ netPromise[c].state = "rejected" => result[c] = Rejected(netPromise[c].value)

(***************************************************************************)
(* C5. Non-blocking write: once _getFromNetwork has settled, handle can    *)
(* settle at once, whatever the state of the put (pending, finished or     *)
(* failed): the delivery of the response never waits for the put.          *)
(***************************************************************************)
C5_NonBlocking ==
  \A c \in Calls :
    (pc[c] = "await_network" /\ Settled(netPromise[c])) => ENABLED HandleResume(c)

\* The response has been delivered while the put is still pending.
C5_Witness ==
  \E c \in Calls : /\ Missed(c) /\ FetchSucceeded(c)
                   /\ result[c] = Fulfilled(fetchPromise[c].value)
                   /\ putPromise[c].state = "pending"

(***************************************************************************)
(* C6 as stated: whenever handle has started a put, the put's promise is   *)
(* registered with the event's waitUntil, so the service worker is never   *)
(* terminated while that put is still pending.                             *)
(***************************************************************************)
C6_Original ==
  \A c \in Calls :
    /\ putPromise[c] # NoPromise => extended[c]
    /\ putPromise[c].state = "pending" => alive

(***************************************************************************)
(* C6, amended: whenever handle delivers the network response, the put it  *)
(* started was handed to event.waitUntil, and accepted, before the         *)
(* delivery; a put so registered is never pending when the service worker  *)
(* is terminated, and it eventually completes.  (A put whose waitUntil     *)
(* threw is started but not registered, and handle rejects.)               *)
(***************************************************************************)
C6_Registered ==
  \A c \in Calls :
    /\ (Missed(c) /\ result[c].state = "fulfilled" /\ result[c].value.kind = "response")
         => (extended[c] /\ Ops(c) = <<"match", "fetch", "clone", "put", "waitUntil">>)
    /\ (extended[c] /\ putPromise[c].state = "pending") => alive
    /\ (putPromise[c] # NoPromise /\ ~extended[c] /\ pc[c] = "done")
         => result[c] = Rejected(Err("InvalidStateError"))

C6_Completes ==
  \A c \in Calls :
    (extended[c] /\ putPromise[c].state = "pending") ~> Settled(putPromise[c])

C6_TrackedWrite == [](C6_Registered) /\ C6_Completes

\* The response was delivered, the put is registered and has completed.
C6_Witness ==
  \E c \in Calls : /\ result[c] = Fulfilled(fetchPromise[c].value)
                   /\ FetchSucceeded(c)
                   /\ extended[c]
                   /\ putPromise[c].state = "fulfilled"
                   /\ store[_cacheName][event[c].request] = NetBody(event[c].request)

(***************************************************************************)
(* C7. Duplication: the Response handed to put is never the object that    *)
(* was fetched and returned to the caller, it carries the same payload,    *)
(* and reading the body of either leaves the other as readable as it was.  *)
(***************************************************************************)
C7_Copies ==
  \A c \in Calls :
    putPromise[c] # NoPromise =>
      /\ ThePut(c).response.oid # fetchPromise[c].value.oid
      /\ ThePut(c).response.body = fetchPromise[c].value.body
      /\ (result[c].state = "fulfilled" => result[c].value.oid # ThePut(c).response.oid)
      /\ (putPromise[c].state = "pending" => ThePut(c).response.oid \notin bodyUsed)

C7_ReadStep ==
  \A c \in Calls :
    putPromise[c] # NoPromise =>
      LET a == fetchPromise[c].value.oid
          b == ThePut(c).response.oid
      IN  /\ ((a \in bodyUsed') # (a \in bodyUsed)) => ((b \in bodyUsed') = (b \in bodyUsed))
          /\ ((b \in bodyUsed') # (b \in bodyUsed)) => ((a \in bodyUsed') = (a \in bodyUsed))

C7_Duplication == [](C7_Copies) /\ [][C7_ReadStep]_vars

\* Both copies have been read to the end: the caller's and the put's.
C7_Witness ==
  \E c \in Calls : /\ putPromise[c].state = "fulfilled"
                   /\ result[c] = Fulfilled(fetchPromise[c].value)
                   /\ result[c].value.oid \in bodyUsed
                   /\ ThePut(c).response.oid \in bodyUsed

(***************************************************************************)
(* C8. A persistence failure is invisible to the caller: on a miss with a  *)
(* successful fetch (and no throw of clone or waitUntil) a finished handle *)
(* has resolved with the fetched response whatever the state of the put;   *)
(* handle never rejects with the put's error; and once handle's promise    *)
(* has settled it never changes.                                           *)
(***************************************************************************)
C8_Outcome ==
  \A c \in Calls :
    /\ (Missed(c) /\ FetchSucceeded(c) /\ ~Threw(c) /\ pc[c] = "done")
         => result[c] = Fulfilled(fetchPromise[c].value)
    /\ (putPromise[c].state = "rejected" /\ Settled(result[c]))
         => result[c].value # putPromise[c].value

C8_SettledStep ==
  \A c \in Calls : Settled(result[c]) => result'[c] = result[c]

C8_PutFailureInvisible == [](C8_Outcome) /\ [][C8_SettledStep]_vars

\* The put failed before handle settled, and handle resolved all the same.
C8_Witness ==
  \E c \in Calls : /\ putPromise[c].state = "rejected"
                   /\ pc[c] = "done"
                   /\ result[c] = Fulfilled(fetchPromise[c].value)
                   /\ FetchSucceeded(c)

(***************************************************************************)
(* C9 as stated: every finished handle call made exactly one match, at     *)
(* most one fetch and at most one put, the fetch only after its match      *)
(* found nothing and the put only after its fetch succeeded.               *)
(***************************************************************************)
IsPrefix(s, t) == Len(s) <= Len(t) /\ \A i \in 1..Len(s) : s[i] = t[i]

C9_Order(c) ==
  /\ IsPrefix(Ops(c), <<"match", "fetch", "clone", "put", "waitUntil">>)
  /\ Len(Made(c, "fetch")) = 1 => Missed(c)
  /\ Len(Made(c, "put")) = 1 => (Missed(c) /\ FetchSucceeded(c))
  /\ (Hit(c) \/ matchPromise[c].state = "rejected") => Len(Made(c, "fetch")) = 0
  /\ (Missed(c) /\ ~FetchSucceeded(c)) => Len(Made(c, "put")) = 0

C9_Original ==
  \A c \in Calls :
    pc[c] = "done" => (Len(Made(c, "match")) = 1 /\ C9_Order(c))

(***************************************************************************)
(* C9, amended: every handle call that passes the non-production assertion *)
(* on its event makes exactly one match (a call that fails the assertion   *)
(* makes none), at most one fetch and at most one put, in that order; the  *)
(* fetch only after its match found nothing and the put only after its     *)
(* fetch succeeded.  Nothing is retried.                                   *)
(***************************************************************************)
C9_SideEffects ==
  \A c \in Calls :
    /\ C9_Order(c)
    /\ pc[c] # "idle" => Len(Made(c, "match")) = (IF FailsAssertion(c) THEN 0 ELSE 1)

\* One finished call made a match, a fetch and a put; another made no match.
C9_Witness ==
  /\ \E c \in Calls : pc[c] = "done" /\ Len(Made(c, "put")) = 1
  /\ \E c \in Calls : pc[c] = "done" /\ FailsAssertion(c)

(***************************************************************************)
(* C10. Lookup error: when match fails, handle rejects with that failure   *)
(* and the call invokes neither fetch nor put nor waitUntil.               *)
(***************************************************************************)
C10_LookupError ==
  \A c \in Calls :
    matchPromise[c].state = "rejected" =>
      /\ pc[c] = "done"
      /\ result[c] = Rejected(matchPromise[c].value)
      /\ Ops(c) = <<"match">>
      /\ fetchPromise[c] = NoPromise
      /\ putPromise[c] = NoPromise
      /\ ~extended[c]

C10_Witness ==
  \E c \in Calls : /\ matchPromise[c] = Rejected(Err("LookupError"))
                   /\ result[c] = Rejected(Err("LookupError"))

(***************************************************************************)
(* C11. Concurrent requests on one instance: whatever the interleaving,    *)
(* a finished call's outcome and its calls on the collaborators are those  *)
(* of the same call running alone against the same answers (of match, of   *)
(* fetch, of clone and of waitUntil), and every response it returns or     *)
(* persists is its own and is for its own request.                         *)
(***************************************************************************)
\* The answers the call got from clone and from waitUntil.
CloneThrew(c) == \E i \in 1..Len(trace[c]) : trace[c][i].op = "clone" /\ trace[c][i].threw

WaitUntilThrew(c) ==
  \E i \in 1..Len(trace[c]) : trace[c][i].op = "waitUntil" /\ trace[c][i].threw

\* What handle() yields when the call runs alone and gets these answers.
AloneResult(c) ==
  IF ~production /\ ~event[c].isFetchEvent THEN Rejected(Err("AssertionError"))
  ELSE IF matchPromise[c].state = "rejected" THEN Rejected(matchPromise[c].value)
  ELSE IF Hit(c) THEN Fulfilled(matchPromise[c].value)
  ELSE IF FetchRejected(c)
       THEN (IF fetchPromise[c].value.kind = "undefined" THEN Fulfilled(Undefined)
             ELSE Rejected(fetchPromise[c].value))
  ELSE IF CloneThrew(c) THEN Rejected(Err("TypeError"))
  ELSE IF WaitUntilThrew(c) THEN Rejected(Err("InvalidStateError"))
  ELSE Fulfilled(fetchPromise[c].value)

\* The calls it makes on its collaborators when it runs alone.
AloneTrace(c) ==
  LET r == event[c].request
      own == Resp(c, "net", NetBody(r))
      copy == Resp(c, "clone", NetBody(r))
      m == <<MatchCall(_cacheName, r, "null", _plugins)>>
      f == <<FetchCall(r, "null", _plugins)>>
  IN  IF ~production /\ ~event[c].isFetchEvent THEN <<>>
      ELSE IF matchPromise[c].state = "rejected" \/ Hit(c) THEN m
      ELSE IF FetchRejected(c) THEN m \o f
      ELSE IF CloneThrew(c) THEN m \o f \o <<CloneCall(own, TRUE)>>
      ELSE m \o f \o <<CloneCall(own, FALSE),
                       PutCall(_cacheName, r, copy, _plugins),
                       WaitUntilCall(copy, WaitUntilThrew(c))>>

C11_Isolation ==
  \A c \in Calls :
    pc[c] = "done" =>
      /\ result[c] = AloneResult(c)
      /\ trace[c] = AloneTrace(c)
      /\ (result[c].state = "fulfilled" /\ result[c].value.kind = "response")
           => (result[c].value.oid[1] = c /\ result[c].value.body[2] = event[c].request)
      /\ putPromise[c] # NoPromise
           => /\ ThePut(c).request = event[c].request
              /\ ThePut(c).response.oid[1] = c
              /\ ThePut(c).response.body[2] = event[c].request

\* Calls for different requests, one a hit and one served from the network,
\* have both finished while the put of the second is still pending.
C11_Witness ==
  /\ NumCalls >= 2
  /\ pc[1] = "done" /\ pc[2] = "done"
  /\ event[1].request = "/b" /\ event[2].request = "/a"
  /\ Hit(2)
  /\ result[1] = Fulfilled(fetchPromise[1].value) /\ FetchSucceeded(1)
  /\ putPromise[1].state = "pending"


(***************************************************************************)
(* C12. Plugin ordering.  As claimed: with P1, P2 registered in that order *)
(* and both implementing the hook of a point, at every lifecycle event of  *)
(* that point P1's hook has completed before P2's begins and each is       *)
(* invoked exactly once.  This fails when P1's hook short-circuits the     *)
(* point and the facade leaves out the rest of the chain.                  *)
(***************************************************************************)
Registered == IF options.hasPlugins THEN options.plugins ELSE <<>>

LogIndexes(plugin, ev) ==
  {i \in 1..Len(hookLog) : hookLog[i].plugin = plugin /\ hookLog[i].ev = ev}

Visited == SelectSeq(hookLog, LAMBDA e : e.ev \in {"begin", "absent"})

C13_NameUsed ==
  /\ _cacheName = (IF options.hasCacheName THEN options.cacheName
                   ELSE DefaultRuntimeName)
  /\ \A c \in Calls : \A i \in 1..Len(trace[c]) :
       trace[c][i].op \in {"match", "put"} => trace[c][i].cacheName = _cacheName
  /\ \A c \in Calls :
       Len(Made(c, "put")) > 0 => ThePut(c).cacheName = Made(c, "match")[1].cacheName

C13_NameStep == _cacheName' = _cacheName /\ options' = options

C13_FixedStoreName == [](C13_NameUsed) /\ [][C13_NameStep]_vars

\* A call matched and put under the name given to the constructor.
C13_Witness ==
  \E c \in Calls : /\ options.hasCacheName
                   /\ Len(Made(c, "put")) = 1
                   /\ ThePut(c).cacheName = "my-cache"
                   /\ Made(c, "match")[1].cacheName = "my-cache"

(***************************************************************************)
(* C14. Step ordering within one call: a fetch is begun only once the      *)
(* match has completed; the response is cloned and the put begun only once *)
(* the fetch has completed with success; a clone is made exactly once in a *)
(* call whose fetch succeeded, and never on a hit or on a failed fetch.    *)
(***************************************************************************)
C14_StepOrder ==
  \A c \in Calls :
    /\ IsPrefix(Ops(c), <<"match", "fetch", "clone", "put", "waitUntil">>)
    /\ fetchPromise[c] # NoPromise => matchPromise[c].state = "fulfilled"
    /\ Len(Made(c, "clone")) > 0 => fetchPromise[c].state = "fulfilled"
    /\ putPromise[c] # NoPromise => fetchPromise[c].state = "fulfilled"
    /\ Len(Made(c, "clone")) = (IF FetchSucceeded(c) THEN 1 ELSE 0)
    /\ (Hit(c) \/ FetchRejected(c)) => Len(Made(c, "clone")) = 0

\* One call cloned after its fetch succeeded; another's fetch failed, no clone.
C14_Witness ==
  /\ \E c \in Calls : FetchSucceeded(c) /\ Len(Made(c, "clone")) = 1
                      /\ Len(Made(c, "put")) = 1
  /\ \E c \in Calls : FetchRejected(c) /\ pc[c] = "done"

(***************************************************************************)
(* C15. Store population.  As claimed: starting from a store with no entry *)
(* for a request, once a call has missed, fetched with success and its put *)
(* has completed with success, every call for that request that starts     *)
(* afterwards is a hit that returns the stored response and makes no fetch *)
(* and no put.  This fails when the later call's lookup fails.             *)
(***************************************************************************)
C15_Populated(r) ==
  \E c \in Calls : /\ pc[c] # "idle" /\ event[c].request = r
                   /\ Missed(c) /\ FetchSucceeded(c)
                   /\ putPromise[c] = Fulfilled(Undefined)

C15_IsHit(d, r) ==
  /\ (pc[d] # "idle" /\ event[d].request = r) => Ops(d) = <<"match">>
  /\ (pc[d] = "done" /\ event[d].request = r)
       => /\ Hit(d)
          /\ result[d] = Fulfilled(matchPromise[d].value)
          /\ matchPromise[d].value.body = store[_cacheName][r]

C15_Stored ==
  \A c \in Calls :
    putPromise[c] = Fulfilled(Undefined)
      => store[_cacheName][event[c].request] = NetBody(event[c].request)

C15_Step ==
  /\ \A n \in CacheNames : \A r \in Requests :
       store[n][r] # NoBody => store'[n][r] # NoBody
  /\ \A d \in Calls :
       (/\ pc[d] = "await_match" /\ pc'[d] # "await_match"
        /\ store[_cacheName][event[d].request] # NoBody
        /\ matchPromise'[d].state = "fulfilled")
         => /\ pc'[d] = "done"
            /\ result'[d] = Fulfilled(Resp(d, "cached", store[_cacheName][event[d].request]))
            /\ trace'[d] = <<trace[d][1]>>
            /\ trace[d][1].op = "match"
            /\ fetchPromise'[d] = NoPromise /\ putPromise'[d] = NoPromise

C16_SamePlugins ==
  LET given == IF options.hasPlugins THEN options.plugins ELSE <<>>
  IN  /\ _plugins = given
      /\ \A c \in Calls : \A i \in 1..Len(trace[c]) :
           /\ trace[c][i].op \in {"match", "fetch", "put"} => trace[c][i].plugins = given
           /\ trace[c][i].op \in {"match", "fetch"} => trace[c][i].options = "null"

\* A call passed the two plugins it was constructed with to match, fetch and put.
C16_Witness ==
  \E c \in Calls : /\ options.plugins = <<"P1", "P2">>
                   /\ Len(Made(c, "put")) = 1
                   /\ ThePut(c).plugins = <<"P1", "P2">>
                   /\ Made(c, "fetch")[1].plugins = <<"P1", "P2">>
                   /\ Made(c, "match")[1].plugins = <<"P1", "P2">>

(***************************************************************************)
(* C17. Concurrent misses are not deduplicated: every call whose match     *)
(* found nothing makes its own fetch and, when the fetch succeeds and the  *)
(* clone is made, its own put of its own copy; it returns its own          *)
(* response; and no step of a call ever waits for another call.            *)
(***************************************************************************)
C17_OwnFetchAndPut ==
  \A c \in Calls :
    /\ Missed(c) => Len(Made(c, "fetch")) = 1
    /\ (FetchSucceeded(c) /\ ~CloneThrew(c))
         => (Len(Made(c, "put")) = 1 /\ ThePut(c).response.oid = <<c, "clone">>)
    /\ (Missed(c) /\ result[c].state = "fulfilled" /\ result[c].value.kind = "response")
         => result[c].value.oid = <<c, "net">>
    /\ pc[c] = "await_match" => ENABLED MatchSettle(c)
    /\ pc[c] = "await_fetch" => ENABLED FetchSettle(c)
    /\ pc[c] = "await_network" => ENABLED HandleResume(c)

\* Two calls for the same request both missed, fetched and started a put.
C17_Witness ==
  \E c, d \in Calls :
    /\ c # d /\ event[c].request = event[d].request
    /\ Missed(c) /\ Missed(d)
    /\ Len(Made(c, "fetch")) = 1 /\ Len(Made(d, "fetch")) = 1
    /\ putPromise[c].state = "pending" /\ putPromise[d].state = "pending"

(***************************************************************************)
(* C18. A failure after a successful fetch, inside _getFromNetwork, makes  *)
(* handle reject with that error: when clone throws no put is started;     *)
(* when waitUntil throws the put has already been started.                 *)
(***************************************************************************)
C18_LateFailure ==
  \A c \in Calls :
    /\ (CloneThrew(c) /\ pc[c] = "done")
         => (FetchSucceeded(c) /\ result[c] = Rejected(Err("TypeError"))
             /\ putPromise[c] = NoPromise)
    /\ (WaitUntilThrew(c) /\ pc[c] = "done")
         => (FetchSucceeded(c) /\ result[c] = Rejected(Err("InvalidStateError"))
             /\ putPromise[c] # NoPromise /\ Len(Made(c, "put")) = 1)

\* handle rejected because waitUntil threw, and the put it started has stored.
C18_Witness ==
  \E c \in Calls : /\ WaitUntilThrew(c)
                   /\ result[c] = Rejected(Err("InvalidStateError"))
                   /\ putPromise[c].state = "fulfilled"
                   /\ store[_cacheName][event[c].request] = NetBody(event[c].request)

(***************************************************************************)
(* C19. Outside production a call whose event is not a FetchEvent fails at *)
(* the assertion before any match, fetch, put or waitUntil; in production  *)
(* the assertion is skipped; and for a FetchEvent the calls made and the   *)
(* outcome are the same function of the collaborators' answers in both     *)
(* modes.                                                                  *)
(***************************************************************************)
C19_Assertion ==
  \A c \in Calls :
    /\ (pc[c] # "idle" /\ ~production /\ ~event[c].isFetchEvent)
         => /\ pc[c] = "done"
            /\ result[c] = Rejected(Err("AssertionError"))
            /\ trace[c] = <<>>
            /\ matchPromise[c] = NoPromise /\ fetchPromise[c] = NoPromise
            /\ putPromise[c] = NoPromise /\ ~extended[c]
    /\ (pc[c] # "idle" /\ production) => Len(Made(c, "match")) = 1
    /\ (pc[c] = "done" /\ event[c].isFetchEvent)
         => (result[c] = AloneResult(c) /\ trace[c] = AloneTrace(c))

C19_Witness ==
  \E c \in Calls : /\ ~production /\ ~event[c].isFetchEvent
                   /\ pc[c] = "done"
                   /\ result[c] = Rejected(Err("AssertionError"))

(***************************************************************************)
(* C20. The glob-pattern wizard never returns a pattern with an empty      *)
(* extension list: with no extension found among the files outside the     *)
(* ignored directories it throws 'no-file-extensions-found' without        *)
(* prompting; with nothing selected it throws                              *)
(* 'no-file-extensions-selected'; otherwise it returns exactly one         *)
(* pattern, **/*.{e1,...,en}, of exactly the selected extensions, the      *)
(* offered extensions being unique, without a leading dot (and so each an  *)
(* extension, not the empty string).  This fails for a file whose name     *)
(* ends in a dot.                                                          *)
(***************************************************************************)
Prompted == wizardPc = "await_prompt" \/ (wizardPc = "done" /\ fileExtensions # <<>>)

C20_GlobPattern ==
  /\ wizardPc \in {"await_prompt", "done"} =>
       /\ \A i, j \in 1..Len(fileExtensions) :
            fileExtensions[i] = fileExtensions[j] => i = j
       /\ \A i \in 1..Len(fileExtensions) :
            fileExtensions[i] # <<>> /\ Head(fileExtensions[i]) # "."
       /\ (\A k \in 1..Len(allFiles) :
             NotIgnored(allFiles[k]) => ExtName(allFiles[k].base) = <<>>)
            => (wizardResult = WizardThrows("no-file-extensions-found") /\ ~Prompted)
  /\ wizardPc = "done" =>
       /\ (Prompted /\ answers = <<>>)
            => wizardResult = WizardThrows("no-file-extensions-selected")
       /\ (Prompted /\ answers # <<>>)
            => wizardResult = WizardReturns(<<GlobPattern(answers)>>)
       /\ wizardResult.state = "fulfilled"
            => /\ Len(wizardResult.value) = 1
               /\ answers # <<>>
               /\ \A i \in 1..Len(answers) : answers[i] # <<>>
               /\ wizardResult.value[1] # <<"*", "*", "/", "*", ".", "{", "}">>

\* The specification under which a pending put eventually finishes.
FairSpec == Spec /\ \A c \in Calls : WF_vars(PutSettle(c))

====
